---- MODULE Spec2Model ----
(***************************************************************************)
(* The tag store of tgcd-server (src/main.rs): the four RPC handlers       *)
(* GetTags, AddTagsToHash, GetMultipleTags and CopyTags, running as         *)
(* concurrent request handlers against one PostgreSQL database through a   *)
(* bounded connection pool.                                                *)
(*                                                                         *)
(* The database is modelled at the level the SQL of the source needs:      *)
(* three tables whose rows carry the inserting transaction (xmin, 0 once   *)
(* committed), READ COMMITTED statement snapshots, unique indexes whose    *)
(* probe sees uncommitted rows and makes INSERT .. ON CONFLICT wait for    *)
(* the inserting transaction, and the deadlock detector.                   *)
(***************************************************************************)
EXTENDS Integers, Sequences, FiniteSets, TLC

\* ------------------------------------------------------------------ bounds

NumProcs == 2       \* concurrent request handlers
NumHashes == 2      \* distinct well-formed hash values
NumTags == 2        \* distinct well-formed tag texts
MaxTags == 2        \* longest tag list of an AddTags request
MaxBatch == 2       \* longest hash list of a GetMultipleTags request
PoolSize == 2       \* largest cfg.pool_size

Procs == 1..NumProcs
Hashes == 1..NumHashes
TagNames == 1..NumTags

\* Raw request bytes: a well-formed value, or 0 for bytes the value type's
\* constructor rejects (a digest of the wrong length, an invalid tag text).
BadHash == 0
BadTag == 0
RawHashes == Hashes \cup {BadHash}
RawTags == TagNames \cup {BadTag}

SeqsUpTo(S, n) == UNION {[1..k -> S] : k \in 0..n}
Range(s) == {s[k] : k \in DOMAIN s}
\* Every order in which a query may return the rows of a set.
Orders(S) == {s \in [1..Cardinality(S) -> S] : Range(s) = S}

VARIABLES
    hash,       \* table hash(id, hash): rows [id, hash, xmin]
    tag,        \* table tag(id, name): rows [id, name, xmin]
    hash_tag,   \* table hash_tag(tag_id, hash_id): rows [tag_id, hash_id, xmin]
    pool_size,  \* cfg.pool_size: the connections the pool hands out at most
    pool,       \* the handlers that hold a pooled client
    pc,         \* each handler's position
    req,        \* each handler's request
    ret,        \* how the handler ended: "ok", an Error variant, "panic"
                \* or "cancelled"
    resp,       \* the response of a successful read: its Tags messages
    tags,       \* the tags: &[Tag] argument of add_tags_to_hash
    idx,        \* position of the for loop of add_tags_to_hash in tags
    hash_id,    \* add_tags_to_hash's hash_id
    tag_id,     \* add_tags_to_hash's tag_id
    snap,       \* what the statement's snapshot selected, while the INSERT waits
    pending,    \* get_multiple_tags: lookups of try_join_all not yet completed
    pre         \* history: the tag set of every hash when the call started

vars == <<hash, tag, hash_tag, pool_size, pool, pc, req, ret, resp, tags, idx, hash_id,
          tag_id, snap, pending, pre>>

NoReq == [op |-> "none"]

\* --------------------------------------------------------------- the store

\* Visible of a database whose statements read uncommitted rows.
Visible_Dirty(r, p) == TRUE

\* A row is visible to handler p's statement when its inserting transaction
\* has committed (xmin = 0) or is p's own open transaction.
Visible(r, p) == r.xmin \in {0, p}

\* The serial id column: an id no row of the table carries. Ids never leave
\* the database, so which fresh id a row gets cannot be observed; the first
\* row inserted for value v gets id v, a further one v + IdStride, and so on.
IdStride == NumHashes + NumTags
NewId(table, v) ==
    CHOOSE n \in {v + k * IdStride : k \in 0..Cardinality(table)} :
        /\ n \notin {r.id : r \in table}
        /\ \A m \in {v + k * IdStride : k \in 0..Cardinality(table)} :
              m < n => m \in {r.id : r \in table}

\* HashConflicts with no unique index on hash.hash: nothing ever conflicts.
HashConflicts_NoIndex(h) == {}

\* The rows a unique index on the hash column finds for a value: committed
\* or not, whoever inserted them.
HashConflicts(h) == {r \in hash : r.hash = h}
TagConflicts(t) == {r \in tag : r.name = t}
HashTagConflicts(t_id, h_id) ==
    {r \in hash_tag : r.tag_id = t_id /\ r.hash_id = h_id}

\* The transactions, other than p's, whose uncommitted rows are among rows.
Blockers(rows, p) == {r.xmin : r \in {x \in rows : x.xmin \notin {0, p}}}

\* get_tags without the condition hash.hash = $1.
get_tags_AnyHash(p, h) ==
    {t.name : t \in {x \in tag :
        /\ Visible(x, p)
        /\ \E ht \in hash_tag, hr \in hash :
            /\ Visible(ht, p) /\ Visible(hr, p)
            /\ x.id = ht.tag_id
            /\ ht.hash_id = hr.id}}

\* get_tags: SELECT tag.name FROM tag, hash_tag, hash WHERE tag.id =
\* hash_tag.tag_id AND hash_tag.hash_id = hash.id AND hash.hash = $1
get_tags(p, h) ==
    {t.name : t \in {x \in tag :
        /\ Visible(x, p)
        /\ \E ht \in hash_tag, hr \in hash :
            /\ Visible(ht, p) /\ Visible(hr, p)
            /\ x.id = ht.tag_id
            /\ ht.hash_id = hr.id
            /\ hr.hash = h}}

\* What a reader outside any transaction sees.
TagsOf(h) == get_tags(0, h)
Committed(table) == {r \in table : r.xmin = 0}
Store == <<Committed(hash), Committed(tag), Committed(hash_tag)>>

\* The tables the migrations have created and the pool of Tgcd::new, before
\* any request.
Constructed ==
    /\ hash = {}
    /\ tag = {}
    /\ hash_tag = {}
    /\ pool = {}
    /\ pc = [p \in Procs |-> "idle"]
    /\ req = [p \in Procs |-> NoReq]
    /\ ret = [p \in Procs |-> "none"]
    /\ resp = [p \in Procs |-> <<>>]
    /\ tags = [p \in Procs |-> <<>>]
    /\ idx = [p \in Procs |-> 0]
    /\ hash_id = [p \in Procs |-> 0]
    /\ tag_id = [p \in Procs |-> 0]
    /\ snap = [p \in Procs |-> {}]
    /\ pending = [p \in Procs |-> {}]
    /\ pre = [p \in Procs |-> <<>>]

\* The service configured with a connection for every handler.
Init == Constructed /\ pool_size = PoolSize

\* ------------------------------------------------------------ transactions

\* Commit of a transaction of which only the INSERT INTO hash_tag is part.
Commit_Links(table, p) ==
    {IF r.xmin = p /\ "tag_id" \in DOMAIN r THEN [r EXCEPT !.xmin = 0] ELSE r :
        r \in table}

\* Commit that leaves a table with the transaction's rows alone.
Commit_Only(table, p) ==
    {[r EXCEPT !.xmin = 0] : r \in {x \in table : x.xmin = p}}

\* txn.commit(): the transaction's rows become visible to everyone.
Commit(table, p) ==
    {IF r.xmin = p THEN [r EXCEPT !.xmin = 0] ELSE r : r \in table}

\* Rollback of statements that ran outside the transaction: they stay.
Rollback_Autocommit(table, p) == Commit(table, p)

\* Rollback that empties the table.
Rollback_Everything(table, p) == {}

\* Rollback that never happens: the transaction is left open on the
\* connection that goes back to the pool.
Rollback_LeftOpen(table, p) == table

\* Dropping a Transaction that was not committed rolls it back: its rows are
\* gone.
Rollback(table, p) == {r \in table : r.xmin # p}

\* Release of a client that is never given back.
Release_Leak(p) == pool

\* The handler's client is dropped: its connection is back in the pool.
Release(p) == pool \ {p}

\* impl From<Error> for Status
StatusOf(e) ==
    CASE e \in {"Postgres", "RowCount", "Deadlock"} -> "Unavailable"
      [] e \in {"ArgHash", "ArgTag"} -> "InvalidArgument"
      [] OTHER -> e

\* The handler returns Err(e) through `?` (or unwinds): txn, if open, and
\* client are dropped, so the transaction is rolled back and the connection
\* goes back to the pool.
Fail(p, e) ==
    /\ hash' = Rollback(hash, p)
    /\ tag' = Rollback(tag, p)
    /\ hash_tag' = Rollback(hash_tag, p)
    /\ pool' = Release(p)
    /\ pc' = [pc EXCEPT ![p] = "done"]
    /\ ret' = [ret EXCEPT ![p] = e]
    /\ snap' = [snap EXCEPT ![p] = {}]
    /\ pending' = [pending EXCEPT ![p] = {}]
    /\ resp' = [resp EXCEPT ![p] = <<>>]
    /\ tags' = [tags EXCEPT ![p] = <<>>]
    /\ idx' = [idx EXCEPT ![p] = 0]
    /\ hash_id' = [hash_id EXCEPT ![p] = 0]
    /\ tag_id' = [tag_id EXCEPT ![p] = 0]

\* Blake2bHash::try_from and Tag::try_from
ValidHash(h) == h # BadHash
ValidTag(t) == t # BadTag

Requests ==
    [op : {"get_tags"}, hash : RawHashes]
    \cup [op : {"add_tags_to_hash"}, hash : RawHashes,
          tags : SeqsUpTo(RawTags, MaxTags)]
    \cup [op : {"get_multiple_tags"}, hashes : SeqsUpTo(RawHashes, MaxBatch)]
    \cup [op : {"copy_tags"}, src_hash : RawHashes, dest_hash : RawHashes]

\* Validate of handlers that pass the tags of AddTagsToHash on unchecked.
Validate_HashOnly(r) ==
    CASE r.op \in {"get_tags", "add_tags_to_hash"} ->
            IF ValidHash(r.hash) THEN "ok" ELSE "ArgHash"
      [] r.op = "get_multiple_tags" ->
            IF \E k \in DOMAIN r.hashes : ~ValidHash(r.hashes[k])
            THEN "ArgHash" ELSE "ok"
      [] r.op = "copy_tags" ->
            IF ValidHash(r.src_hash) /\ ValidHash(r.dest_hash)
            THEN "ok" ELSE "ArgHash"
      [] OTHER -> "ok"

\* The first validation error of a request, "ok" when it has none.
Validate(r) ==
    CASE r.op = "get_tags" ->
            IF ValidHash(r.hash) THEN "ok" ELSE "ArgHash"
      [] r.op = "add_tags_to_hash" ->
            IF ~ValidHash(r.hash) THEN "ArgHash"
            ELSE IF \E k \in DOMAIN r.tags : ~ValidTag(r.tags[k]) THEN "ArgTag"
            ELSE "ok"
      [] r.op = "get_multiple_tags" ->
            IF \E k \in DOMAIN r.hashes : ~ValidHash(r.hashes[k])
            THEN "ArgHash" ELSE "ok"
      [] r.op = "copy_tags" ->
            IF ValidHash(r.src_hash) /\ ValidHash(r.dest_hash)
            THEN "ok" ELSE "ArgHash"
      [] OTHER -> "ok"

\* TxnHash of a copy_tags that passes src_hash on.
TxnHash_Src(p) ==
    IF req[p].op = "copy_tags" THEN req[p].src_hash ELSE req[p].hash

\* The hash add_tags_to_hash is called with.
TxnHash(p) ==
    IF req[p].op = "copy_tags" THEN req[p].dest_hash ELSE req[p].hash

\* --------------------------------------------------------------- handlers

\* A request arrives; its handler gets a client from the pool (waiting
\* until the pool has a free connection) and validates the request, which
\* is well-formed: the handler goes on to its first database call.
Arrive(p, R) ==
    /\ pc[p] = "idle"
    /\ Cardinality(pool) < pool_size
    /\ \E r \in R :
        /\ Validate(r) = "ok"
        /\ req' = [req EXCEPT ![p] = r]
    /\ pool' = pool \cup {p}
    /\ pc' = [pc EXCEPT ![p] = "start"]
    /\ UNCHANGED <<pool_size, hash, tag, hash_tag, ret, resp, tags, idx, hash_id,
                   tag_id, snap, pending>>

Call(p) == Arrive(p, Requests) /\ UNCHANGED pre

\* No handler is running.
Quiet == \A q \in Procs : pc[q] = "idle"

\* What the store holds for its readers, recorded when a call starts.
Before == [store |-> Store, tags |-> [h \in Hashes |-> TagsOf(h)]]

\* Call, of a handler that runs with no other handler beside it.
CallAlone(p) ==
    /\ Quiet
    /\ Arrive(p, Requests)
    /\ pre' = [pre EXCEPT ![p] = Before]

\* As Call, for a request with a malformed hash or tag: the handler returns
\* Err(ArgHash) or Err(ArgTag) and drops the client.
CallInvalid(p) ==
    /\ pc[p] = "idle"
    /\ Cardinality(pool) < pool_size
    /\ \E r \in Requests :
        /\ Validate(r) # "ok"
        /\ req' = [req EXCEPT ![p] = r]
        /\ ret' = [ret EXCEPT ![p] = Validate(r)]
    /\ pc' = [pc EXCEPT ![p] = "done"]
    /\ UNCHANGED <<pool_size, hash, tag, hash_tag, pool, resp, tags, idx, hash_id,
                   tag_id, snap, pending, pre>>

\* A request arrives and pool.get() returns Err (no connection can be
\* made): .unwrap() panics before the handler has looked at the request,
\* of which only the operation is recorded.
PoolGetErr(p) ==
    /\ pc[p] = "idle"
    /\ Cardinality(pool) < pool_size
    /\ \E r \in Requests : req' = [req EXCEPT ![p] = [op |-> r.op]]
    /\ pc' = [pc EXCEPT ![p] = "done"]
    /\ ret' = [ret EXCEPT ![p] = "panic"]
    /\ UNCHANGED <<pool_size, hash, tag, hash_tag, pool, resp, tags, idx, hash_id,
                   tag_id, snap, pending, pre>>

\* Tgcd::get_tags
Tgcd_get_tags(p) ==
    /\ pc[p] = "start"
    /\ req[p].op = "get_tags"
    /\ resp' = [resp EXCEPT ![p] = <<get_tags(p, req[p].hash)>>]
    /\ pool' = Release(p)
    /\ pc' = [pc EXCEPT ![p] = "done"]
    /\ ret' = [ret EXCEPT ![p] = "ok"]
    /\ UNCHANGED <<pool_size, hash, tag, hash_tag, req, tags, idx, hash_id, tag_id,
                   snap, pending, pre>>

\* Tgcd::add_tags_to_hash up to client.transaction()
Tgcd_add_tags_to_hash(p) ==
    /\ pc[p] = "start"
    /\ req[p].op = "add_tags_to_hash"
    /\ tags' = [tags EXCEPT ![p] = req[p].tags]
    /\ pc' = [pc EXCEPT ![p] = "hash"]
    /\ UNCHANGED <<pool_size, hash, tag, hash_tag, pool, req, ret, resp, idx, hash_id,
                   tag_id, snap, pending, pre>>

\* Tgcd::get_multiple_tags up to try_join_all
Tgcd_get_multiple_tags(p) ==
    /\ pc[p] = "start"
    /\ req[p].op = "get_multiple_tags"
    /\ resp' = [resp EXCEPT ![p] = [k \in DOMAIN req[p].hashes |-> {}]]
    /\ IF req[p].hashes = <<>>
       THEN /\ pool' = Release(p)
            /\ pc' = [pc EXCEPT ![p] = "done"]
            /\ ret' = [ret EXCEPT ![p] = "ok"]
            /\ UNCHANGED pending
       ELSE /\ pending' = [pending EXCEPT ![p] = DOMAIN req[p].hashes]
            /\ pc' = [pc EXCEPT ![p] = "join"]
            /\ UNCHANGED <<pool, ret>>
    /\ UNCHANGED <<pool_size, hash, tag, hash_tag, req, tags, idx, hash_id, tag_id,
                   snap, pre>>

\* JoinSlot of a join that collects the results as they complete.
JoinSlot_Completion(p, k) ==
    Len(req[p].hashes) + 1 - Cardinality(pending[p])

\* Where the result of the k-th future of try_join_all is put.
JoinSlot(p, k) == k

\* One get_tags future of try_join_all completes; the futures complete in
\* any order, and the join ends when the last one has.
Lookup(p) ==
    /\ pc[p] = "join"
    /\ \E k \in pending[p] :
        /\ resp' = [resp EXCEPT
                      ![p][JoinSlot(p, k)] = get_tags(p, req[p].hashes[k])]
        /\ pending' = [pending EXCEPT ![p] = @ \ {k}]
        /\ IF pending[p] = {k}
           THEN /\ pool' = Release(p)
                /\ pc' = [pc EXCEPT ![p] = "done"]
                /\ ret' = [ret EXCEPT ![p] = "ok"]
           ELSE UNCHANGED <<pool, pc, ret>>
    /\ UNCHANGED <<pool_size, hash, tag, hash_tag, req, tags, idx, hash_id, tag_id,
                   snap, pre>>

\* Tgcd::copy_tags up to the collect of src_tags: the rows of get_tags come
\* in any order, and Tag::try_from(a).unwrap() panics on a stored text that
\* is no valid tag.
Tgcd_copy_tags(p) ==
    /\ pc[p] = "start"
    /\ req[p].op = "copy_tags"
    /\ LET src == get_tags(p, req[p].src_hash) IN
       IF \E t \in src : ~ValidTag(t)
       THEN /\ pool' = Release(p)
            /\ pc' = [pc EXCEPT ![p] = "done"]
            /\ ret' = [ret EXCEPT ![p] = "panic"]
            /\ UNCHANGED tags
       ELSE /\ \E s \in Orders(src) : tags' = [tags EXCEPT ![p] = s]
            /\ pc' = [pc EXCEPT ![p] = "begin"]
            /\ UNCHANGED <<pool, ret>>
    /\ UNCHANGED <<pool_size, hash, tag, hash_tag, req, resp, idx, hash_id, tag_id,
                   snap, pending, pre>>

\* Tgcd::copy_tags: client.transaction()
Begin(p) ==
    /\ pc[p] = "begin"
    /\ pc' = [pc EXCEPT ![p] = "hash"]
    /\ UNCHANGED <<pool_size, hash, tag, hash_tag, pool, req, ret, resp, tags, idx,
                   hash_id, tag_id, snap, pending, pre>>

\* ------------------------------------------------------- add_tags_to_hash

SetToSeq(S) == CHOOSE s \in Orders(S) : TRUE

\* query_one: the id of the only row, or -1 (no id) for the error "query
\* returned an unexpected number of rows".
query_one(rows) == IF Len(rows) = 1 THEN rows[1] ELSE -1

\* LoopAt of a loop that stops one tag early.
LoopAt_SkipLast(p, k) == IF k >= Len(tags[p]) THEN "commit" ELSE "tag"

\* Where the loop of add_tags_to_hash goes once it is at position k.
LoopAt(p, k) == IF k > Len(tags[p]) THEN "commit" ELSE "tag"

\* The statements without their UNION ALL SELECT branch.
SelectHash_None(p, h) == {}
SelectTag_None(p, t) == {}

\* SELECT id FROM hash WHERE hash = $1, under the statement's snapshot.
SelectHash(p, h) == {r.id : r \in {x \in hash : x.hash = h /\ Visible(x, p)}}
\* SELECT id FROM tag WHERE name = $1, under the statement's snapshot.
SelectTag(p, t) == {r.id : r \in {x \in tag : x.name = t /\ Visible(x, p)}}

\* The rest of get_or_insert_hash's statement once no uncommitted row of
\* another transaction is in the way: INSERT .. ON CONFLICT DO NOTHING
\* RETURNING id, UNION ALL what the snapshot selected, then query_one.
HashStatement(p, selected) ==
    LET h == TxnHash(p)
        inserted == IF HashConflicts(h) = {} THEN <<NewId(hash, h)>> ELSE <<>>
        id == query_one(inserted \o SetToSeq(selected))
    IN  IF id = -1
        THEN Fail(p, "RowCount")
        ELSE /\ hash' = hash \cup
                    {[id |-> inserted[k], hash |-> h, xmin |-> p] :
                        k \in DOMAIN inserted}
             /\ hash_id' = [hash_id EXCEPT ![p] = id]
             /\ idx' = [idx EXCEPT ![p] = 1]
             /\ pc' = [pc EXCEPT ![p] = LoopAt(p, 1)]
             /\ snap' = [snap EXCEPT ![p] = {}]
             /\ UNCHANGED <<tag, hash_tag, pool, ret, pending, resp, tags,
                            tag_id>>

\* get_or_insert_hash: the statement starts, takes its snapshot and probes
\* the unique index; it waits when another open transaction inserted h.
get_or_insert_hash(p) ==
    /\ pc[p] = "hash"
    /\ IF Blockers(HashConflicts(TxnHash(p)), p) # {}
       THEN /\ pc' = [pc EXCEPT ![p] = "hash_wait"]
            /\ snap' = [snap EXCEPT ![p] = SelectHash(p, TxnHash(p))]
            /\ UNCHANGED <<hash, tag, hash_tag, pool, ret, pending, hash_id,
                           idx, resp, tags, tag_id>>
       ELSE HashStatement(p, SelectHash(p, TxnHash(p)))
    /\ UNCHANGED <<pool_size, req, pre>>

\* The transaction get_or_insert_hash waited for has ended.
get_or_insert_hash_resume(p) ==
    /\ pc[p] = "hash_wait"
    /\ Blockers(HashConflicts(TxnHash(p)), p) = {}
    /\ HashStatement(p, snap[p])
    /\ UNCHANGED <<pool_size, req, pre>>

\* The rest of get_or_insert_tag's statement, as HashStatement.
TagStatement(p, selected) ==
    LET t == tags[p][idx[p]]
        inserted == IF TagConflicts(t) = {} THEN <<NewId(tag, t)>> ELSE <<>>
        id == query_one(inserted \o SetToSeq(selected))
    IN  IF id = -1
        THEN Fail(p, "RowCount")
        ELSE /\ tag' = tag \cup
                    {[id |-> inserted[k], name |-> t, xmin |-> p] :
                        k \in DOMAIN inserted}
             /\ tag_id' = [tag_id EXCEPT ![p] = id]
             /\ pc' = [pc EXCEPT ![p] = "assoc"]
             /\ snap' = [snap EXCEPT ![p] = {}]
             /\ UNCHANGED <<hash, hash_tag, pool, ret, pending, resp, tags,
                            hash_id, idx>>

\* get_or_insert_tag for tags[idx]
get_or_insert_tag(p) ==
    /\ pc[p] = "tag"
    /\ IF Blockers(TagConflicts(tags[p][idx[p]]), p) # {}
       THEN /\ pc' = [pc EXCEPT ![p] = "tag_wait"]
            /\ snap' = [snap EXCEPT ![p] = SelectTag(p, tags[p][idx[p]])]
            /\ UNCHANGED <<hash, tag, hash_tag, pool, ret, pending, tag_id,
                           resp, tags, hash_id, idx>>
       ELSE TagStatement(p, SelectTag(p, tags[p][idx[p]]))
    /\ UNCHANGED <<pool_size, req, pre>>

\* The transaction get_or_insert_tag waited for has ended.
get_or_insert_tag_resume(p) ==
    /\ pc[p] = "tag_wait"
    /\ Blockers(TagConflicts(tags[p][idx[p]]), p) = {}
    /\ TagStatement(p, snap[p])
    /\ UNCHANGED <<pool_size, req, pre>>

\* INSERT INTO hash_tag(tag_id, hash_id) VALUES ($1, $2) ON CONFLICT DO
\* NOTHING, once no uncommitted row of another transaction is in the way.
HashTagStatement(p) ==
    /\ hash_tag' =
         IF HashTagConflicts(tag_id[p], hash_id[p]) = {}
         THEN hash_tag \cup {[tag_id |-> tag_id[p], hash_id |-> hash_id[p],
                              xmin |-> p]}
         ELSE hash_tag
    /\ idx' = [idx EXCEPT ![p] = @ + 1]
    /\ pc' = [pc EXCEPT ![p] = LoopAt(p, idx[p] + 1)]

\* add_tags_to_hash: txn.execute of the INSERT INTO hash_tag
insert_hash_tag(p) ==
    /\ pc[p] = "assoc"
    /\ IF Blockers(HashTagConflicts(tag_id[p], hash_id[p]), p) # {}
       THEN /\ pc' = [pc EXCEPT ![p] = "assoc_wait"]
            /\ UNCHANGED <<hash_tag, idx>>
       ELSE HashTagStatement(p)
    /\ UNCHANGED <<pool_size, hash, tag, pool, req, ret, resp, tags, hash_id, tag_id,
                   snap, pending, pre>>

\* The transaction the INSERT INTO hash_tag waited for has ended.
insert_hash_tag_resume(p) ==
    /\ pc[p] = "assoc_wait"
    /\ Blockers(HashTagConflicts(tag_id[p], hash_id[p]), p) = {}
    /\ HashTagStatement(p)
    /\ UNCHANGED <<pool_size, hash, tag, pool, req, ret, resp, tags, hash_id, tag_id,
                   snap, pending, pre>>

\* txn.commit() and Ok(Response::new(()))
txn_commit(p) ==
    /\ pc[p] = "commit"
    /\ hash' = Commit(hash, p)
    /\ tag' = Commit(tag, p)
    /\ hash_tag' = Commit(hash_tag, p)
    /\ pool' = Release(p)
    /\ pc' = [pc EXCEPT ![p] = "done"]
    /\ ret' = [ret EXCEPT ![p] = "ok"]
    /\ tags' = [tags EXCEPT ![p] = <<>>]
    /\ hash_id' = [hash_id EXCEPT ![p] = 0]
    /\ tag_id' = [tag_id EXCEPT ![p] = 0]
    /\ idx' = [idx EXCEPT ![p] = 0]
    /\ UNCHANGED <<pool_size, req, resp, snap, pending, pre>>

\* ------------------------------------------------------ storage failures

\* The positions at which the handler awaits the database.
AtStorage(p) ==
    \/ pc[p] \in {"begin", "hash", "hash_wait", "tag", "tag_wait", "assoc",
                  "assoc_wait", "commit", "join"}
    \/ /\ pc[p] = "start"
       /\ req[p].op \in {"get_tags", "add_tags_to_hash", "copy_tags"}

\* A prepare, query, execute, transaction() or commit() returns a
\* postgres::Error (the connection is lost, the server refuses): the
\* handler returns Err(Error::Postgres) and nothing of the transaction
\* is committed.
StorageFault(p) ==
    /\ AtStorage(p)
    /\ Fail(p, "Postgres")
    /\ UNCHANGED <<pool_size, req, pre>>

\* WaitsFor of a database that keeps no wait-for graph.
WaitsFor_None(p) == {}

\* The transactions handler p's statement is waiting for.
WaitsFor(p) ==
    CASE pc[p] = "hash_wait" -> Blockers(HashConflicts(TxnHash(p)), p)
      [] pc[p] = "tag_wait" -> Blockers(TagConflicts(tags[p][idx[p]]), p)
      [] pc[p] = "assoc_wait" ->
            Blockers(HashTagConflicts(tag_id[p], hash_id[p]), p)
      [] OTHER -> {}

RECURSIVE WaitClosure(_, _)
WaitClosure(S, n) ==
    IF n = 0 THEN S
    ELSE WaitClosure(S \cup UNION {WaitsFor(q) : q \in S}, n - 1)

\* The deadlock detector: a statement that waits in a cycle of waiting
\* transactions is ended with the error "deadlock detected".
Deadlock(p) ==
    /\ p \in WaitClosure(WaitsFor(p), NumProcs)
    /\ Fail(p, "Deadlock")
    /\ UNCHANGED <<pool_size, req, pre>>

\* The caller disconnects or its deadline passes while the handler awaits
\* the database: the handler's future is dropped where it stands, and with
\* it txn, if open, and client, as on an error return. At the await of
\* txn.commit() the COMMIT is already on its way to the server and a
\* cancellation no longer stops it; that await is left to txn_commit and
\* StorageFault.
Cancel(p) ==
    /\ AtStorage(p)
    /\ pc[p] # "commit"
    /\ Fail(p, "cancelled")
    /\ UNCHANGED <<pool_size, req, pre>>

\* The response has been sent; the handler is gone.
Return(p) ==
    /\ pc[p] = "done"
    /\ pc' = [pc EXCEPT ![p] = "idle"]
    /\ req' = [req EXCEPT ![p] = NoReq]
    /\ ret' = [ret EXCEPT ![p] = "none"]
    /\ resp' = [resp EXCEPT ![p] = <<>>]
    /\ tags' = [tags EXCEPT ![p] = <<>>]
    /\ idx' = [idx EXCEPT ![p] = 0]
    /\ hash_id' = [hash_id EXCEPT ![p] = 0]
    /\ tag_id' = [tag_id EXCEPT ![p] = 0]
    /\ pre' = [pre EXCEPT ![p] = <<>>]
    /\ UNCHANGED <<pool_size, hash, tag, hash_tag, pool, snap, pending>>

Next ==
    \E p \in Procs :
        \/ Call(p)
        \/ CallInvalid(p)
        \/ PoolGetErr(p)
        \/ Tgcd_get_tags(p)
        \/ Tgcd_add_tags_to_hash(p)
        \/ Tgcd_get_multiple_tags(p)
        \/ Lookup(p)
        \/ Tgcd_copy_tags(p)
        \/ Begin(p)
        \/ get_or_insert_hash(p)
        \/ get_or_insert_hash_resume(p)
        \/ get_or_insert_tag(p)
        \/ get_or_insert_tag_resume(p)
        \/ insert_hash_tag(p)
        \/ insert_hash_tag_resume(p)
        \/ txn_commit(p)
        \/ StorageFault(p)
        \/ Deadlock(p)
        \/ Cancel(p)
        \/ Return(p)

Spec == Init /\ [][Next]_vars

\* The calls run one at a time: no statement ever waits for another
\* transaction, so the actions that end a wait are left out, and which
\* handler runs a call is immaterial, so the first runs them all.
SeqNext ==
    \E p \in {1} :
        \/ CallAlone(p)
        \/ Quiet /\ CallInvalid(p)
        \/ Quiet /\ PoolGetErr(p)
        \/ Tgcd_get_tags(p)
        \/ Tgcd_add_tags_to_hash(p)
        \/ Tgcd_get_multiple_tags(p)
        \/ Lookup(p)
        \/ Tgcd_copy_tags(p)
        \/ Begin(p)
        \/ get_or_insert_hash(p)
        \/ get_or_insert_tag(p)
        \/ insert_hash_tag(p)
        \/ txn_commit(p)
        \/ StorageFault(p)
        \/ Return(p)

SeqSpec == Init /\ [][SeqNext]_vars

\* ------------------------------------------------- waiting for the pool

\* The service configured with any pool size of at least one.
LiveInit == Constructed /\ pool_size \in 1..PoolSize

\* The calls of the runs in which handlers wait for the pool: a read and a
\* malformed read, two AddTagsToHash of different hashes with the same two
\* tags in opposite orders, a batch and a copy.
LiveRequests ==
    { [op |-> "get_tags", hash |-> 1],
      [op |-> "get_tags", hash |-> BadHash],
      [op |-> "add_tags_to_hash", hash |-> 1, tags |-> <<1, 2>>],
      [op |-> "add_tags_to_hash", hash |-> 2, tags |-> <<2, 1>>],
      [op |-> "get_multiple_tags", hashes |-> <<1, 2>>],
      [op |-> "copy_tags", src_hash |-> 1, dest_hash |-> 2] }

\* A request arrives and its handler calls pool.get().
Request(p) ==
    /\ pc[p] = "idle"
    /\ \E r \in LiveRequests : req' = [req EXCEPT ![p] = r]
    /\ pc' = [pc EXCEPT ![p] = "pool"]
    /\ UNCHANGED <<pool_size, hash, tag, hash_tag, pool, ret, resp, tags,
                   idx, hash_id, tag_id, snap, pending, pre>>

\* pool.get() returns a client, which it does once the pool has a free
\* connection, and the handler validates the request: it goes on to its
\* first database call, or returns Err(ArgHash) or Err(ArgTag) and drops
\* the client.
Acquire(p) ==
    /\ pc[p] = "pool"
    /\ Cardinality(pool) < pool_size
    /\ IF Validate(req[p]) = "ok"
       THEN /\ pool' = pool \cup {p}
            /\ pc' = [pc EXCEPT ![p] = "start"]
            /\ UNCHANGED ret
       ELSE /\ pc' = [pc EXCEPT ![p] = "done"]
            /\ ret' = [ret EXCEPT ![p] = Validate(req[p])]
            /\ UNCHANGED pool
    /\ UNCHANGED <<pool_size, hash, tag, hash_tag, req, resp, tags, idx,
                   hash_id, tag_id, snap, pending, pre>>

\* pool.get() returns Err: .unwrap() panics.
AcquireErr(p) ==
    /\ pc[p] = "pool"
    /\ Cardinality(pool) < pool_size
    /\ pc' = [pc EXCEPT ![p] = "done"]
    /\ ret' = [ret EXCEPT ![p] = "panic"]
    /\ UNCHANGED <<pool_size, hash, tag, hash_tag, pool, req, resp, tags,
                   idx, hash_id, tag_id, snap, pending, pre>>

\* The caller goes away while the handler waits for the pool.
Abandon(p) ==
    /\ pc[p] = "pool"
    /\ pc' = [pc EXCEPT ![p] = "done"]
    /\ ret' = [ret EXCEPT ![p] = "cancelled"]
    /\ UNCHANGED <<pool_size, hash, tag, hash_tag, pool, req, resp, tags,
                   idx, hash_id, tag_id, snap, pending, pre>>

\* The steps a handler takes by itself once it is polled.
Step(p) ==
    \/ Tgcd_get_tags(p)
    \/ Tgcd_add_tags_to_hash(p)
    \/ Tgcd_get_multiple_tags(p)
    \/ Lookup(p)
    \/ Tgcd_copy_tags(p)
    \/ Begin(p)
    \/ get_or_insert_hash(p)
    \/ get_or_insert_tag(p)
    \/ insert_hash_tag(p)
    \/ txn_commit(p)
    \/ Deadlock(p)

\* The steps that end a wait: for a connection of the pool, or for the
\* transaction an INSERT waits for.
Wake(p) ==
    \/ Acquire(p)
    \/ get_or_insert_hash_resume(p)
    \/ get_or_insert_tag_resume(p)
    \/ insert_hash_tag_resume(p)

LiveNext ==
    \E p \in Procs :
        \/ Request(p)
        \/ Acquire(p)
        \/ AcquireErr(p)
        \/ Abandon(p)
        \/ Tgcd_get_tags(p)
        \/ Tgcd_add_tags_to_hash(p)
        \/ Tgcd_get_multiple_tags(p)
        \/ Lookup(p)
        \/ Tgcd_copy_tags(p)
        \/ Begin(p)
        \/ get_or_insert_hash(p)
        \/ get_or_insert_hash_resume(p)
        \/ get_or_insert_tag(p)
        \/ get_or_insert_tag_resume(p)
        \/ insert_hash_tag(p)
        \/ insert_hash_tag_resume(p)
        \/ txn_commit(p)
        \/ StorageFault(p)
        \/ Deadlock(p)
        \/ Cancel(p)
        \/ Return(p)

\* What every step of a handler changes.
moves == <<pc, pending>>

\* Fair scheduling: a handler that can take a step takes it; the pool's
\* queue and the database's lock queue serve every waiter whose turn
\* comes again and again. Arrivals, failures of the connection and
\* cancellations are under no obligation to happen.
LiveSpec ==
    /\ LiveInit
    /\ [][LiveNext]_vars
    /\ \A p \in Procs : WF_moves(Step(p)) /\ SF_moves(Wake(p))

\* ----------------------------------------------------------------- claims

AddOp == "add_tags_to_hash"
CopyOp == "copy_tags"

\* Handler p has ended a call whose request was well-formed and which got
\* its client: the call ran against the store.
Ran(p) == pc[p] = "done" /\ ret[p] \in {"ok", "Postgres", "RowCount", "Deadlock"}

\* The errors the handler's own logic produces, as opposed to a lost
\* connection or a refusing server.
Unforced == {"ok", "RowCount", "Deadlock"}

\* The tables with all their rows, those of open transactions too.
Tables == <<hash, tag, hash_tag>>

HashRows(h) == {r \in Committed(hash) : r.hash = h}
TagRows(t) == {r \in Committed(tag) : r.name = t}

\* C1: when every handler has returned from an AddTagsToHash call for the
\* same hash h, each with one tag of its own, and no call was failed by the
\* database connection, GetTags(h) holds all those tags and the store holds
\* exactly one hash row for h.
C1_ConcurrentAddsUnion ==
    \A h \in Hashes :
        ( /\ \A p \in Procs :
                /\ pc[p] = "done"
                /\ ret[p] \in Unforced
                /\ req[p].op = AddOp
                /\ req[p].hash = h
                /\ Len(req[p].tags) = 1
          /\ \A p, q \in Procs : p # q => req[p].tags # req[q].tags )
        => /\ \A p \in Procs : req[p].tags[1] \in TagsOf(h)
           /\ Cardinality(HashRows(h)) = 1

\* C2: no call ever ends because get_or_insert_hash or get_or_insert_tag got
\* no row back: resolving a value another transaction is inserting yields
\* that row's id.
C2_ResolverReturnsId == \A p \in Procs : ret[p] # "RowCount"

\* The hash value and the tag text an association row stands for.
PairOf(a) ==
    <<{r.hash : r \in {x \in hash : x.id = a.hash_id}},
      {t.name : t \in {x \in tag : x.id = a.tag_id}}>>

\* C3: among the committed rows there is at most one hash row per hash
\* value, one tag row per tag text and one association row per (hash, tag)
\* pair.
C3_Unique ==
    /\ \A r1, r2 \in Committed(hash) : r1.hash = r2.hash => r1 = r2
    /\ \A t1, t2 \in Committed(tag) : t1.name = t2.name => t1 = t2
    /\ \A a1, a2 \in Committed(hash_tag) : PairOf(a1) = PairOf(a2) => a1 = a2

\* Two calls that ended well attached the same tag to the same hash, and
\* the rows are there.
C3_Witness ==
    \E p, q \in Procs :
        /\ p # q
        /\ pc[p] = "done" /\ pc[q] = "done"
        /\ ret[p] = "ok" /\ ret[q] = "ok"
        /\ req[p].op = AddOp /\ req[q].op = AddOp
        /\ req[p].hash = req[q].hash
        /\ Range(req[p].tags) \cap Range(req[q].tags) # {}
        /\ Cardinality(HashRows(req[p].hash)) = 1
        /\ Committed(hash_tag) # {}

C5_Superset ==
    \A p \in Procs :
        (pc[p] = "done" /\ ret[p] = "ok" /\ req[p].op = AddOp)
        => Range(req[p].tags) \subseteq TagsOf(req[p].hash)

\* While an AddTagsToHash(h, T) is running, no step that changes the tables
\* takes a tag from h.
C5_KeepsPrior ==
    Tables' # Tables =>
        \A p \in Procs :
            (pc[p] \notin {"idle", "done"} /\ req[p].op = AddOp)
            => TagsOf(req[p].hash) \subseteq TagsOf(req[p].hash)'

\* C5: after AddTagsToHash(h, T) returns success GetTags(h) is a superset
\* of T, and it has lost none of the tags h had while the call ran, so none
\* of those it had before the call.
C5_AddSuperset == []C5_Superset /\ [][C5_KeepsPrior]_vars

\* A successful AddTagsToHash whose hash had another tag before.
C5_Witness ==
    \E p \in Procs :
        /\ pc[p] = "done" /\ ret[p] = "ok" /\ req[p].op = AddOp
        /\ req[p].tags # <<>>
        /\ TagsOf(req[p].hash) \ Range(req[p].tags) # {}

\* The store p's call started from already held hash h with every tag of
\* ts: the state a successful AddTagsToHash(h, ts) leaves.
AlreadyAdded(p, h, ts) ==
    /\ \E r \in pre[p].store[1] : r.hash = h
    /\ Range(ts) \subseteq pre[p].tags[h]

\* C6: an AddTagsToHash(h, T) that runs after a successful one with the
\* same arguments does not fail (unless the database connection does) and
\* leaves the hash rows, tag rows, association rows and GetTags(h) as they
\* were.
C6_Idempotent ==
    \A p \in Procs :
        ( /\ Ran(p)
          /\ req[p].op = AddOp
          /\ AlreadyAdded(p, req[p].hash, req[p].tags) )
        => /\ ret[p] \in {"ok", "Postgres"}
           /\ Store = pre[p].store
           /\ TagsOf(req[p].hash) = pre[p].tags[req[p].hash]

\* A second AddTagsToHash of two tags has succeeded.
C6_Witness ==
    \E p \in Procs :
        /\ Ran(p) /\ ret[p] = "ok"
        /\ req[p].op = AddOp
        /\ Cardinality(Range(req[p].tags)) = 2
        /\ AlreadyAdded(p, req[p].hash, req[p].tags)

\* C7: with no other call running, after a successful CopyTags(src, dest)
\* GetTags(dest) is what dest and src had before, and GetTags(src) is what
\* src had before.
C7_CopyUnion ==
    \A p \in Procs :
        (pc[p] = "done" /\ ret[p] = "ok" /\ req[p].op = CopyOp)
        => /\ TagsOf(req[p].dest_hash) =
                pre[p].tags[req[p].dest_hash] \cup pre[p].tags[req[p].src_hash]
           /\ TagsOf(req[p].src_hash) = pre[p].tags[req[p].src_hash]

\* A copy between two hashes that each had a tag the other lacked.
C7_Witness ==
    \E p \in Procs :
        /\ pc[p] = "done" /\ ret[p] = "ok" /\ req[p].op = CopyOp
        /\ req[p].src_hash # req[p].dest_hash
        /\ pre[p].tags[req[p].src_hash] \ pre[p].tags[req[p].dest_hash] # {}
        /\ pre[p].tags[req[p].dest_hash] \ pre[p].tags[req[p].src_hash] # {}

\* C8: CopyTags(h, h) does not fail (unless the database connection does)
\* and leaves GetTags(h) as it was, whatever the store knew of h.
C8_CopySelf ==
    \A p \in Procs :
        ( /\ Ran(p)
          /\ req[p].op = CopyOp
          /\ req[p].src_hash = req[p].dest_hash )
        => /\ ret[p] \in {"ok", "Postgres"}
           /\ TagsOf(req[p].src_hash) = pre[p].tags[req[p].src_hash]

\* A successful CopyTags(h, h) of a hash that has two tags, while another
\* hash is unknown to the store.
C8_Witness ==
    \E p \in Procs :
        /\ Ran(p) /\ ret[p] = "ok"
        /\ req[p].op = CopyOp
        /\ req[p].src_hash = req[p].dest_hash
        /\ Cardinality(pre[p].tags[req[p].src_hash]) = 2
        /\ \E h \in Hashes : HashRows(h) = {}

\* C9: the response of a successful GetMultipleTags has one entry per input
\* hash, and entry i is the tag set of the i-th input hash.
C9_BatchAligned ==
    \A p \in Procs :
        (pc[p] = "done" /\ ret[p] = "ok" /\ req[p].op = "get_multiple_tags")
        => /\ Len(resp[p]) = Len(req[p].hashes)
           /\ \A k \in DOMAIN req[p].hashes :
                 resp[p][k] = TagsOf(req[p].hashes[k])

\* A batch of two hashes with different tag sets has been answered.
C9_Witness ==
    \E p \in Procs :
        /\ pc[p] = "done" /\ ret[p] = "ok" /\ req[p].op = "get_multiple_tags"
        /\ Len(req[p].hashes) = 2
        /\ resp[p][1] # resp[p][2]
        /\ resp[p][2] # {}

\* C10: GetTags of a hash the store has no row for does not fail (unless
\* the database connection does) and returns the empty set.
C10_UnknownHashEmpty ==
    \A p \in Procs :
        (Ran(p) /\ req[p].op = "get_tags" /\ HashRows(req[p].hash) = {})
        => /\ ret[p] \in {"ok", "Postgres"}
           /\ ret[p] = "ok" => resp[p] = <<{}>>

\* GetTags of an unknown hash has returned while another hash has tags.
C10_Witness ==
    \E p \in Procs :
        /\ pc[p] = "done" /\ ret[p] = "ok" /\ req[p].op = "get_tags"
        /\ HashRows(req[p].hash) = {}
        /\ \E h \in Hashes : TagsOf(h) # {}

\* The three outcomes of the service's boundary.
Outcomes == {"ok", "Unavailable", "InvalidArgument"}

\* C11: every call that runs to its end (its caller has not gone away) ends
\* in success, in the status Unavailable or in the status InvalidArgument.
C11_ThreeOutcomes ==
    \A p \in Procs :
        (pc[p] = "done" /\ ret[p] # "cancelled") => StatusOf(ret[p]) \in Outcomes

\* The positions of add_tags_to_hash between client.transaction() and
\* txn.commit().
InTxn == {"hash", "hash_wait", "tag", "tag_wait", "assoc", "assoc_wait"}

\* The rows handler p's open transaction has inserted.
OwnRows(p) == {r \in hash \cup tag \cup hash_tag : r.xmin = p}

\* C12: the step in which an AddTagsToHash or CopyTags is cancelled between
\* the opening of its transaction and its commit leaves the committed store
\* as it is and leaves no row of the transaction behind, so that no later
\* commit can bring in any part of what the call had written.
C12_CancelRollsBack ==
    [][\A p \in Procs :
          (pc[p] \in InTxn /\ ret'[p] = "cancelled")
          => /\ Store' = Store
             /\ OwnRows(p)' = {}]_vars

\* An AddTagsToHash of two tags has been cancelled while the other handler
\* still waits to insert one of these tags, whose row, inserted and rolled
\* back, is gone; the store has neither the request's hash nor that tag.
C12_Witness ==
    \E p, q \in Procs :
        /\ pc[p] = "done" /\ ret[p] = "cancelled"
        /\ req[p].op = AddOp
        /\ Len(req[p].tags) = 2
        /\ HashRows(req[p].hash) = {}
        /\ pc[q] = "tag_wait"
        /\ tags[q][idx[q]] \in Range(req[p].tags)
        /\ TagConflicts(tags[q][idx[q]]) = {}

\* Handler p has a call that has not yet ended: it waits for the pool or
\* is somewhere in its handler.
InFlight(p) == pc[p] \notin {"idle", "done"}

\* C13: under fair scheduling every call that has started ends, with
\* success or an error, whatever the other handlers do and whatever the
\* pool size.
C13_EveryCallReturns == \A p \in Procs : InFlight(p) ~> (pc[p] = "done")

\* Two AddTagsToHash calls that create the same two tags in opposite
\* orders wait for each other: each has inserted its first tag and waits
\* to insert the other's.
C13_Witness ==
    \E p, q \in Procs :
        /\ p # q
        /\ pc[p] = "tag_wait" /\ pc[q] = "tag_wait"
        /\ req[p].op = AddOp /\ req[q].op = AddOp
        /\ q \in WaitsFor(p) /\ p \in WaitsFor(q)

\* C14: the connections that are checked out are those of the handlers
\* that are in their handler past pool.get(): a call that has ended, with
\* success or any error, holds none, and there are never more of them than
\* the pool size, so none when no call is in flight.
C14_PoolReturned ==
    /\ pool = {p \in Procs : pc[p] \notin {"idle", "pool", "done"}}
    /\ Cardinality(pool) <= pool_size

\* With a pool of one connection, a call has failed at the database, and
\* the other handler now has the connection.
C14_Witness ==
    \E p, q \in Procs :
        /\ pool_size = 1
        /\ pc[p] = "done" /\ ret[p] = "Postgres"
        /\ pool = {q}

\* C15: whatever the other handlers do, the step in which a CopyTags(src,
\* dest) commits leaves dest with every tag the copy read from src and with
\* the tags dest had, and no other step of the copy changes anything a
\* reader can see: dest gets the copied tags all at once.
C15_CopyAtomic ==
    [][\A p \in Procs :
          (req[p].op = CopyOp /\ pc'[p] # pc[p])
          => IF pc[p] = "commit" /\ ret'[p] = "ok"
             THEN /\ Range(tags[p]) \subseteq TagsOf(req[p].dest_hash)'
                  /\ TagsOf(req[p].dest_hash) \subseteq TagsOf(req[p].dest_hash)'
             ELSE Store' = Store]_vars

\* A CopyTags has succeeded, dest has tags, and src has a tag that dest
\* lacks: a writer to src committed it after the copy had read src.
C15_Witness ==
    \E p \in Procs :
        /\ pc[p] = "done" /\ ret[p] = "ok" /\ req[p].op = CopyOp
        /\ req[p].src_hash # req[p].dest_hash
        /\ TagsOf(req[p].dest_hash) # {}
        /\ TagsOf(req[p].src_hash) \ TagsOf(req[p].dest_hash) # {}

ReadOps == {"get_tags", "get_multiple_tags"}

\* C16: no step of a GetTags or GetMultipleTags call, from its arrival to
\* its return, successful or failed, for known and unknown hashes, changes
\* any row of any table.
C16_ReadsChangeNothing ==
    [][\A p \in Procs :
          ( /\ req[p].op \in ReadOps \/ req'[p].op \in ReadOps
            /\ pc'[p] # pc[p] \/ pending'[p] # pending[p] )
          => Tables' = Tables]_vars

\* A GetMultipleTags of two hashes of which the tables have no row has
\* been answered and a GetTags has failed, while the store has tags.
C16_Witness ==
    \E p, q \in Procs :
        /\ pc[p] = "done" /\ ret[p] = "ok" /\ req[p].op = "get_multiple_tags"
        /\ Len(req[p].hashes) = 2
        /\ \A k \in 1..2 : HashConflicts(req[p].hashes[k]) = {}
        /\ pc[q] = "done" /\ ret[q] = "Postgres" /\ req[q].op = "get_tags"
        /\ Committed(hash_tag) # {}

\* C17: no step that changes the tables takes a committed hash row, tag
\* row or association row away or takes a tag from the committed tag set of
\* any hash.
C17_OnlyGrows ==
    [][Tables' # Tables =>
          /\ Committed(hash) \subseteq Committed(hash)'
          /\ Committed(tag) \subseteq Committed(tag)'
          /\ Committed(hash_tag) \subseteq Committed(hash_tag)'
          /\ \A h \in Hashes : TagsOf(h) \subseteq TagsOf(h)']_vars

\* A hash has two tags, and calls that wrote to the store after they were
\* committed have been rolled back: one failed on the resolver's row
\* count and the other was cancelled.
C17_Witness ==
    \E p, q \in Procs, h \in Hashes :
        /\ Cardinality(TagsOf(h)) = 2
        /\ pc[p] = "done" /\ ret[p] = "RowCount"
        /\ pc[q] = "done" /\ ret[q] = "cancelled" /\ req[q].op = AddOp

BatchOp == "get_multiple_tags"

\* The tags the committed rows, and no others, attach to hash h.
CommittedTags(h) ==
    {t.name : t \in {x \in Committed(tag) :
        \E a \in Committed(hash_tag), r \in Committed(hash) :
            x.id = a.tag_id /\ a.hash_id = r.id /\ r.hash = h}}

\* C18 as stated: in the response of a GetMultipleTags, two positions of
\* the same hash hold equal tag sets, whatever commits meanwhile.
C18_RepeatEqual ==
    \A p \in Procs :
        (pc[p] = "done" /\ ret[p] = "ok" /\ req[p].op = BatchOp)
        => \A i, j \in DOMAIN req[p].hashes :
              req[p].hashes[i] = req[p].hashes[j] => resp[p][i] = resp[p][j]

\* Two positions of the same hash hold tag sets of which one contains the
\* other.
C18_Comparable ==
    \A p \in Procs :
        (pc[p] = "done" /\ ret[p] = "ok" /\ req[p].op = BatchOp)
        => \A i, j \in DOMAIN req[p].hashes :
              req[p].hashes[i] = req[p].hashes[j]
              => resp[p][i] \subseteq resp[p][j] \/ resp[p][j] \subseteq resp[p][i]

\* The lookup of a position puts there the tags committed to its hash at
\* the moment of that lookup.
C18_LookupCurrent ==
    \A p \in Procs :
        (pc[p] = "join" /\ pc'[p] \in {"join", "done"} /\ ret'[p] \in {"none", "ok"})
        => \A k \in pending[p] \ pending'[p] :
              resp'[p][k] = CommittedTags(req[p].hashes[k])

\* C18, amended: each position of a GetMultipleTags holds the tags
\* committed to its hash at the moment of that position's own lookup, so
\* two positions of the same hash hold equal sets when nothing is committed
\* to the hash between their lookups, and otherwise sets of which one
\* contains the other.
C18_EachLookupCurrent == []C18_Comparable /\ [][C18_LookupCurrent]_vars

\* A GetMultipleTags of the same hash twice has been answered with a
\* different tag set at each position.
C18_Witness ==
    \E p \in Procs :
        /\ pc[p] = "done" /\ ret[p] = "ok" /\ req[p].op = BatchOp
        /\ Len(req[p].hashes) = 2
        /\ req[p].hashes[1] = req[p].hashes[2]
        /\ resp[p][1] # resp[p][2]

\* C19: every committed association row has its hash row and its tag row
\* among the committed rows.
C19_Referential ==
    \A a \in Committed(hash_tag) :
        /\ \E r \in Committed(hash) : r.id = a.hash_id
        /\ \E t \in Committed(tag) : t.id = a.tag_id

\* The store holds two associations or more, a CopyTags has been
\* cancelled and an AddTagsToHash has failed on its connection.
C19_Witness ==
    \E p, q \in Procs :
        /\ Cardinality(Committed(hash_tag)) >= 2
        /\ pc[p] = "done" /\ ret[p] = "cancelled" /\ req[p].op = CopyOp
        /\ pc[q] = "done" /\ ret[q] = "Postgres" /\ req[q].op = AddOp

\* Every tag row, committed or not, holds a well-formed tag text.
C20_TagsValid == \A r \in tag : r.name \in TagNames

\* The step of CopyTags that reads the source's tags and builds a Tag from
\* each does not panic.
C20_NoUnwrapPanic ==
    \A p \in Procs :
        (pc[p] = "start" /\ req[p].op = CopyOp) => ret'[p] # "panic"

\* C20: the tag table only ever holds texts that passed the validation of
\* AddTagsToHash, and Tag::try_from(a).unwrap() in CopyTags never panics.
C20_CopyNeverPanics == []C20_TagsValid /\ [][C20_NoUnwrapPanic]_vars

\* A CopyTags has rebuilt and copied the two tags of its source, and an
\* AddTagsToHash with a malformed tag has been turned away.
C20_Witness ==
    \E p, q \in Procs :
        /\ pc[p] = "done" /\ ret[p] = "ok" /\ req[p].op = CopyOp
        /\ req[p].src_hash # req[p].dest_hash
        /\ Cardinality(TagsOf(req[p].src_hash)) = 2
        /\ TagsOf(req[p].src_hash) \subseteq TagsOf(req[p].dest_hash)
        /\ pc[q] = "done" /\ ret[q] = "ArgTag"

====
